---- MODULE Spec2Model ----
(***************************************************************************)
(* Contact-management backend: the contact repository (CRUD and the        *)
(* favourite flag), the user repository's keyed operations, the search     *)
(* routes, and the update/remove race of two requests on one contact.      *)
(*                                                                         *)
(* Strings are tuples of one-character strings.  An Optional value is a    *)
(* sequence of length at most one: None is << >>, a value c is <<c>>.       *)
(***************************************************************************)
EXTENDS Integers, Sequences, FiniteSets, TLC

VARIABLES
    contacts,   \* the contacts table: contact id -> row
    nextId,     \* the next value of the contacts primary-key sequence
    createdBy,  \* history: contact id -> the user whose create call made it
    removed,    \* history: ids for which remove returned a contact
    before,     \* history: the contacts table when the last call started
    last,       \* history: the last call, its arguments and its outcome
    users,      \* the users table: email -> row
    today,      \* the calendar date the clock shows
    race        \* the two sessions of a concurrent update and remove

vars == <<contacts, nextId, createdBy, removed, before, last, users, today, race>>

\* ------------------------------------------------------------------ bounds

MaxId == 2          \* create is called at most this many times
MaxShift == 40      \* shift of the birthday window ranges up to this

\* ------------------------------------------------------------------ inputs

Users == {1, 2}

None == << >>
Some(c) == <<c>>

Body1 ==
    [firstname |-> <<"A","n","n","a">>,
     lastname |-> <<"S","m","i","t","h">>,
     email |-> <<"a","n","@","x">>,
     phone |-> <<"5","5","1">>,
     birthday |-> [y |-> 1990, m |-> 12, d |-> 25],
     additional_info |-> <<"v","i","p">>,
     is_favorite |-> FALSE]

Body2 ==
    [firstname |-> <<"B","o","b">>,
     lastname |-> <<"J","o","n","e","s">>,
     email |-> <<"b","o","b","s","m","i","t","h","@","x">>,
     phone |-> <<"7","7","2">>,
     birthday |-> [y |-> 2001, m |-> 1, d |-> 3],
     additional_info |-> <<"g","y","m">>,
     is_favorite |-> TRUE]

Body3 ==
    [firstname |-> <<"C","a","r","l">>,
     lastname |-> <<"S","m","y","t","h","e">>,
     email |-> <<"c","@","y">>,
     phone |-> <<"9","0","5","5">>,
     birthday |-> [y |-> 1992, m |-> 2, d |-> 29],
     additional_info |-> << >>,
     is_favorite |-> FALSE]

Bodies == {Body1, Body2}
SearchBodies == {Body1, Body2, Body3}

Ids == 1..(MaxId + 1)
Limits == {1, 2}
Offsets == {0, 1, 2}

NoCall == [op |-> "none", user |-> 0, ret |-> None, raised |-> FALSE]

\* ------------------------------------------------------- contact repository

\* contacts.py:36  db.query(Contact).filter(and_(user_id == user.id, id == contact_id)).first()
get_contact_by_id_any_owner(db, user, contact_id) ==
    IF contact_id \in DOMAIN db THEN Some(db[contact_id]) ELSE None

get_contact_by_id(db, user, contact_id) ==
    IF contact_id \in DOMAIN db /\ db[contact_id].user_id = user
    THEN Some(db[contact_id])
    ELSE None

\* The rows db.query(Contact).filter(Contact.user_id == user.id) selects.
OwnedIds(db, user) == {i \in DOMAIN db : db[i].user_id = user}

Orders(S) ==
    {o \in [1..Cardinality(S) -> S] : \A i, j \in 1..Cardinality(S) : i # j => o[i] # o[j]}

Min2(a, b) == IF a < b THEN a ELSE b

\* contacts.py:19  .limit(limit).offset(offset).all(), on the rows in the order
\* `order` the store happens to produce them (no ORDER BY).
get_contacts(db, user, limit, offset, order) ==
    LET n == Len(order)
        from == offset + 1
        to == Min2(n, offset + limit)
    IN  IF from > to THEN << >>
        ELSE [k \in 1..(to - from + 1) |-> db[order[from + k - 1]]]

\* contacts.py:50  Contact(**body.dict(), user_id=user.id)
NewContact(nid, user, body) ==
    [id |-> nid,
     user_id |-> user,
     firstname |-> body.firstname,
     lastname |-> body.lastname,
     email |-> body.email,
     phone |-> body.phone,
     birthday |-> body.birthday,
     additional_info |-> body.additional_info,
     is_favorite |-> body.is_favorite]

Insert(db, c) == [i \in DOMAIN db \cup {c.id} |-> IF i = c.id THEN c ELSE db[i]]
Delete(db, id) == [i \in DOMAIN db \ {id} |-> db[i]]

\* contacts.py:40-54
create_default_favorite(db, nid, user, body) ==
    LET contact == [NewContact(nid, user, body) EXCEPT !.is_favorite = FALSE]
    IN  [db |-> Insert(db, contact), ret |-> Some(contact)]

create(db, nid, user, body) ==
    LET contact == NewContact(nid, user, body)
    IN  [db |-> Insert(db, contact), ret |-> Some(contact)]

\* contacts.py:74-80  the seven assignments of update
Replaced(contact, body) ==
    [contact EXCEPT
        !.firstname = body.firstname,
        !.lastname = body.lastname,
        !.email = body.email,
        !.phone = body.phone,
        !.birthday = body.birthday,
        !.additional_info = body.additional_info,
        !.is_favorite = body.is_favorite]

\* contacts.py:57-82
update_keeps_info(db, user, contact_id, body) ==
    LET found == get_contact_by_id(db, user, contact_id)
    IN  IF found # None
        THEN LET contact ==
                    [Replaced(found[1], body) EXCEPT
                        !.additional_info = found[1].additional_info]
             IN  [db |-> [db EXCEPT ![contact_id] = contact], ret |-> Some(contact)]
        ELSE [db |-> db, ret |-> None]

update_any_owner(db, user, contact_id, body) ==
    IF contact_id \in DOMAIN db
    THEN LET contact == Replaced(db[contact_id], body)
         IN  [db |-> [db EXCEPT ![contact_id] = contact], ret |-> Some(contact)]
    ELSE [db |-> db, ret |-> None]

update(db, user, contact_id, body) ==
    LET found == get_contact_by_id(db, user, contact_id)
    IN  IF found # None
        THEN LET contact == Replaced(found[1], body)
             IN  [db |-> [db EXCEPT ![contact_id] = contact], ret |-> Some(contact)]
        ELSE [db |-> db, ret |-> None]

\* contacts.py:85-99
remove_keeps_row(db, user, contact_id) ==
    LET found == get_contact_by_id(db, user, contact_id)
    IN  [db |-> db, ret |-> found]

remove(db, user, contact_id) ==
    LET found == get_contact_by_id(db, user, contact_id)
    IN  IF found # None
        THEN [db |-> Delete(db, contact_id), ret |-> found]
        ELSE [db |-> db, ret |-> None]

\* contacts.py:102-117
set_favorite_clears_info(db, user, contact_id, is_favorite) ==
    LET found == get_contact_by_id(db, user, contact_id)
    IN  IF found # None
        THEN LET contact ==
                    [found[1] EXCEPT !.is_favorite = is_favorite,
                                     !.additional_info = << >>]
             IN  [db |-> [db EXCEPT ![contact_id] = contact], ret |-> Some(contact)]
        ELSE [db |-> db, ret |-> None]

set_favorite(db, user, contact_id, is_favorite) ==
    LET found == get_contact_by_id(db, user, contact_id)
    IN  IF found # None
        THEN LET contact == [found[1] EXCEPT !.is_favorite = is_favorite]
             IN  [db |-> [db EXCEPT ![contact_id] = contact], ret |-> Some(contact)]
        ELSE [db |-> db, ret |-> None]

\* ------------------------------------------------------------------ state

EmptyTable == [i \in {} |-> 0]

NoRace == [active |-> FALSE]

Init ==
    /\ contacts = EmptyTable
    /\ nextId = 1
    /\ createdBy = EmptyTable
    /\ removed = {}
    /\ before = EmptyTable
    /\ last = NoCall
    /\ users = EmptyTable
    /\ today = [y |-> 2023, m |-> 12, d |-> 20]
    /\ race = NoRace

\* ------------------------------------------------- contact repository calls

GetContacts(u, limit, offset) ==
    \E order \in Orders(OwnedIds(contacts, u)) :
        /\ last' = [op |-> "get_contacts", user |-> u, limit |-> limit,
                    offset |-> offset, order |-> order,
                    ret |-> get_contacts(contacts, u, limit, offset, order),
                    raised |-> FALSE]
        /\ before' = contacts
        /\ UNCHANGED <<contacts, nextId, createdBy, removed, users, today, race>>

GetContactById(u, id) ==
    /\ last' = [op |-> "get_contact_by_id", user |-> u, id |-> id,
                ret |-> get_contact_by_id(contacts, u, id), raised |-> FALSE]
    /\ before' = contacts
    /\ UNCHANGED <<contacts, nextId, createdBy, removed, users, today, race>>

Create(u, body) ==
    /\ nextId <= MaxId
    /\ LET r == create(contacts, nextId, u, body)
       IN  /\ contacts' = r.db
           /\ last' = [op |-> "create", user |-> u, body |-> body,
                       ret |-> r.ret, raised |-> FALSE]
    /\ nextId' = nextId + 1
    /\ createdBy' = [i \in DOMAIN createdBy \cup {nextId} |->
                        IF i = nextId THEN u ELSE createdBy[i]]
    /\ before' = contacts
    /\ UNCHANGED <<removed, users, today, race>>

Update(u, id, body) ==
    /\ LET r == update(contacts, u, id, body)
       IN  /\ contacts' = r.db
           /\ last' = [op |-> "update", user |-> u, id |-> id, body |-> body,
                       ret |-> r.ret, raised |-> FALSE]
    /\ before' = contacts
    /\ UNCHANGED <<nextId, createdBy, removed, users, today, race>>

Remove(u, id) ==
    /\ LET r == remove(contacts, u, id)
       IN  /\ contacts' = r.db
           /\ last' = [op |-> "remove", user |-> u, id |-> id,
                       ret |-> r.ret, raised |-> FALSE]
           /\ removed' = IF r.ret # None THEN removed \cup {id} ELSE removed
    /\ before' = contacts
    /\ UNCHANGED <<nextId, createdBy, users, today, race>>

SetFavorite(u, id, flag) ==
    /\ LET r == set_favorite(contacts, u, id, flag)
       IN  /\ contacts' = r.db
           /\ last' = [op |-> "set_favorite", user |-> u, id |-> id, flag |-> flag,
                       ret |-> r.ret, raised |-> FALSE]
    /\ before' = contacts
    /\ UNCHANGED <<nextId, createdBy, removed, users, today, race>>

Next ==
    \/ \E u \in Users, limit \in Limits, offset \in Offsets : GetContacts(u, limit, offset)
    \/ \E u \in Users, id \in Ids : GetContactById(u, id)
    \/ \E u \in Users, body \in Bodies : Create(u, body)
    \/ \E u \in Users, id \in Ids, body \in Bodies : Update(u, id, body)
    \/ \E u \in Users, id \in Ids : Remove(u, id)
    \/ \E u \in Users, id \in Ids, flag \in BOOLEAN : SetFavorite(u, id, flag)

Spec == Init /\ [][Next]_vars

\* ---------------------------------------------------------------- calendar

IsLeap(y) == (y % 4 = 0 /\ y % 100 # 0) \/ y % 400 = 0

DaysInMonth(y, m) ==
    IF m = 2 THEN (IF IsLeap(y) THEN 29 ELSE 28)
    ELSE IF m \in {4, 6, 9, 11} THEN 30 ELSE 31

DaysInYear(y) == IF IsLeap(y) THEN 366 ELSE 365

ValidDate(y, m, d) == m \in 1..12 /\ d \in 1..DaysInMonth(y, m)

\* The days of a common year before the first of each month.
CumulativeDays == <<0, 31, 59, 90, 120, 151, 181, 212, 243, 273, 304, 334>>

DaysBeforeMonth(y, m) == CumulativeDays[m] + (IF m > 2 /\ IsLeap(y) THEN 1 ELSE 0)

DayOfYear(y, m, d) == DaysBeforeMonth(y, m) + d

\* ------------------------------------------------------------------ search

\* The number of days from `from` to the date y-m-d, for y the year of `from`
\* or the year after it.
DaysUntil(from, y, m, d) ==
    (IF y = from.y THEN 0 ELSE DaysInYear(from.y))
        + DayOfYear(y, m, d) - DayOfYear(from.y, from.m, from.d)

\* The birthday window: the contact's next birthday, in this year or the next,
\* is at most shift days away.
BirthdayInWindow(birthday, from, shift) ==
    \E y \in {from.y, from.y + 1} :
        /\ ValidDate(y, birthday.m, birthday.d)
        /\ DaysUntil(from, y, birthday.m, birthday.d) \in 0..shift

\* repository search.get_birthday_list(user, shift, db)
repository_contacts_get_birthday_list(db, user, shift, now) ==
    Some({db[i] : i \in {j \in OwnedIds(db, user) :
                            BirthdayInWindow(db[j].birthday, now, shift)}})

UpperToLower ==
    [c \in {"A", "B", "C", "I", "J", "M", "S"} |->
        CASE c = "A" -> "a" [] c = "B" -> "b" [] c = "C" -> "c" [] c = "I" -> "i"
          [] c = "J" -> "j" [] c = "M" -> "m" [] c = "S" -> "s"]

LowerChar(c) == IF c \in DOMAIN UpperToLower THEN UpperToLower[c] ELSE c

Lower(s) == [i \in 1..Len(s) |-> LowerChar(s[i])]

PrefixAt(h, n, i) == \A k \in 1..Len(n) : h[i + k - 1] = n[k]

RECURSIVE ContainsFrom(_, _, _)
ContainsFrom(h, n, i) ==
    IF i + Len(n) - 1 > Len(h) THEN FALSE
    ELSE IF PrefixAt(h, n, i) THEN TRUE
    ELSE ContainsFrom(h, n, i + 1)

\* text, without regard to case, is somewhere in field
ILike(field, text) == ContainsFrom(Lower(field), Lower(text), 1)

\* repository search.get_users_by_partial_info(user, partial_info, db)
repository_contacts_get_users_by_partial_info(db, user, partial_info) ==
    Some({db[i] : i \in {j \in OwnedIds(db, user) :
                            \/ ILike(db[j].firstname, partial_info)
                            \/ ILike(db[j].lastname, partial_info)
                            \/ ILike(db[j].email, partial_info)
                            \/ ILike(db[j].phone, partial_info)}})

NotFound == [raised |-> TRUE, status |-> 404, ret |-> {}]
Ok(rows) == [raised |-> FALSE, status |-> 200, ret |-> rows]

\* routes/search.py:16-31
get_birthday_list_next_day(db, current_user, shift, now) ==
    LET found == repository_contacts_get_birthday_list(db, current_user, shift + 1, now)
    IN  IF found = None THEN NotFound ELSE Ok(found[1])

get_birthday_list(db, current_user, shift, now) ==
    LET found == repository_contacts_get_birthday_list(db, current_user, shift, now)
    IN  IF found = None THEN NotFound ELSE Ok(found[1])

\* routes/search.py:34-52
find_contacts_by_partial_info_any_user(db, current_user, partial_info) ==
    LET rows == UNION {repository_contacts_get_users_by_partial_info(db, u, partial_info)[1] : u \in Users}
    IN  Ok(rows)

find_contacts_by_partial_info(db, current_user, partial_info) ==
    LET found == repository_contacts_get_users_by_partial_info(db, current_user, partial_info)
    IN  IF found = None THEN NotFound ELSE Ok(found[1])

Todays ==
    {[y |-> 2023, m |-> 12, d |-> 20], [y |-> 2023, m |-> 12, d |-> 25],
     [y |-> 2024, m |-> 12, d |-> 31], [y |-> 2024, m |-> 1, d |-> 3],
     [y |-> 2023, m |-> 2, d |-> 27], [y |-> 2024, m |-> 2, d |-> 27],
     [y |-> 2024, m |-> 2, d |-> 29], [y |-> 2023, m |-> 11, d |-> 25]}

Texts ==
    {<<"s","m","i","t","h">>, <<"S","M","I">>, <<"S","m","y">>, << >>,
     <<"5","5">>, <<"@","x">>, <<"z">>, <<"a","n","n","a","x">>}

\* The tables holding one contact of each body, for every choice of owners.
SearchTables ==
    {[i \in 1..3 |-> NewContact(i, owner[i], CASE i = 1 -> Body1 [] i = 2 -> Body2 [] i = 3 -> Body3)] :
        owner \in [1..3 -> Users]}

InitSearch ==
    /\ contacts \in SearchTables
    /\ nextId = 4
    /\ createdBy = [i \in 1..3 |-> contacts[i].user_id]
    /\ removed = {}
    /\ before = contacts
    /\ last = NoCall
    /\ users = EmptyTable
    /\ today \in Todays
    /\ race = NoRace

GetBirthdayList(u, shift) ==
    /\ LET r == get_birthday_list(contacts, u, shift, today)
       IN  last' = [op |-> "get_birthday_list", user |-> u, shift |-> shift,
                    ret |-> r.ret, raised |-> r.raised]
    /\ before' = contacts
    /\ UNCHANGED <<contacts, nextId, createdBy, removed, users, today, race>>

FindContactsByPartialInfo(u, text) ==
    /\ LET r == find_contacts_by_partial_info(contacts, u, text)
       IN  last' = [op |-> "find_contacts_by_partial_info", user |-> u, text |-> text,
                    ret |-> r.ret, raised |-> r.raised]
    /\ before' = contacts
    /\ UNCHANGED <<contacts, nextId, createdBy, removed, users, today, race>>

NextSearch ==
    \/ \E u \in Users, shift \in 0..MaxShift : GetBirthdayList(u, shift)
    \/ \E u \in Users, text \in Texts : FindContactsByPartialInfo(u, text)

SpecSearch == InitSearch /\ [][NextSearch]_vars

\* ---------------------------------------------------------- user repository

Emails == {"ann@x", "bob@x"}
Urls == {"url1", "url2"}
Gravatar == "gravatar"

\* users.py:8-17
get_user_by_email(db, email) ==
    IF email \in DOMAIN db THEN Some(db[email]) ELSE None

\* users.py:20-35; the email column is unique, a second row with the same email
\* is refused by the store and the error propagates.
create_user(db, email) ==
    IF email \in DOMAIN db
    THEN [db |-> db, ret |-> None, raised |-> TRUE]
    ELSE LET new_user == [email |-> email, confirmed |-> FALSE, avatar |-> Gravatar]
         IN  [db |-> [e \in DOMAIN db \cup {email} |-> IF e = email THEN new_user ELSE db[e]],
              ret |-> Some(new_user), raised |-> FALSE]

\* users.py:56-67; with no such user, user is None and `user.confirmed = True`
\* raises AttributeError before anything is committed.
confirmed_email(db, email) ==
    LET user == get_user_by_email(db, email)
    IN  IF user = None
        THEN [db |-> db, ret |-> None, raised |-> TRUE]
        ELSE [db |-> [db EXCEPT ![email].confirmed = TRUE], ret |-> None, raised |-> FALSE]

\* users.py:70-83; with no such user, `user.avatar = url` raises AttributeError.
update_avatar(db, email, url) ==
    LET user == get_user_by_email(db, email)
    IN  IF user = None
        THEN [db |-> db, ret |-> None, raised |-> TRUE]
        ELSE [db |-> [db EXCEPT ![email].avatar = url],
              ret |-> Some([user[1] EXCEPT !.avatar = url]), raised |-> FALSE]

GetUserByEmail(email) ==
    /\ last' = [op |-> "get_user_by_email", user |-> 0, email |-> email,
                ret |-> get_user_by_email(users, email), raised |-> FALSE]
    /\ UNCHANGED <<contacts, nextId, createdBy, removed, before, users, today, race>>

CreateUser(email) ==
    /\ LET r == create_user(users, email)
       IN  /\ users' = r.db
           /\ last' = [op |-> "create_user", user |-> 0, email |-> email,
                       ret |-> r.ret, raised |-> r.raised]
    /\ UNCHANGED <<contacts, nextId, createdBy, removed, before, today, race>>

ConfirmedEmail(email) ==
    /\ LET r == confirmed_email(users, email)
       IN  /\ users' = r.db
           /\ last' = [op |-> "confirmed_email", user |-> 0, email |-> email,
                       ret |-> r.ret, raised |-> r.raised]
    /\ UNCHANGED <<contacts, nextId, createdBy, removed, before, today, race>>

UpdateAvatar(email, url) ==
    /\ LET r == update_avatar(users, email, url)
       IN  /\ users' = r.db
           /\ last' = [op |-> "update_avatar", user |-> 0, email |-> email, url |-> url,
                       ret |-> r.ret, raised |-> r.raised]
    /\ UNCHANGED <<contacts, nextId, createdBy, removed, before, today, race>>

NextUsers ==
    \/ \E email \in Emails : GetUserByEmail(email)
    \/ \E email \in Emails : CreateUser(email)
    \/ \E email \in Emails : ConfirmedEmail(email)
    \/ \E email \in Emails, url \in Urls : UpdateAvatar(email, url)

SpecUsers == Init /\ [][NextUsers]_vars

\* ------------------------------------- concurrent update and remove, one row
\* Two requests, each with a session of its own, run contacts.update and
\* contacts.remove step by step: the lookup (a SELECT), the change made to the
\* loaded object in the session, and db.commit(), which flushes the change as
\* one UPDATE or DELETE on the row's primary key and commits it.

\* contacts.py:81  db.commit() of update.  The flush writes the columns whose
\* value differs from the loaded one, WHERE id = contact.id; it writes nothing
\* when none differs.  An UPDATE that matches no row makes the session raise
\* StaleDataError.
commit_update_upsert(db, loaded, contact) ==
    [db |-> Insert(db, contact), raised |-> FALSE]

commit_update(db, loaded, contact) ==
    IF contact = loaded THEN [db |-> db, raised |-> FALSE]
    ELSE IF contact.id \in DOMAIN db
    THEN [db |-> [db EXCEPT ![contact.id] =
                    [f \in DOMAIN contact |->
                        IF contact[f] # loaded[f] THEN contact[f] ELSE db[contact.id][f]]],
          raised |-> FALSE]
    ELSE [db |-> db, raised |-> TRUE]

\* contacts.py:97-98  db.delete(contact); db.commit().  A DELETE that matches
\* no row is only warned about.
commit_delete(db, contact) ==
    [db |-> IF contact.id \in DOMAIN db THEN Delete(db, contact.id) ELSE db,
     raised |-> FALSE]

InitRace ==
    /\ \E owner \in Users, body \in Bodies :
            contacts = [i \in {1} |-> NewContact(1, owner, body)]
    /\ nextId = 2
    /\ createdBy = [i \in {1} |-> contacts[1].user_id]
    /\ removed = {}
    /\ before = contacts
    /\ last = NoCall
    /\ users = EmptyTable
    /\ today = [y |-> 2023, m |-> 12, d |-> 20]
    /\ \E uUser \in Users, rUser \in Users, id \in {1, 2}, body \in Bodies :
            race = [active |-> TRUE, uUser |-> uUser, rUser |-> rUser, id |-> id,
                    body |-> body,
                    pcU |-> "lookup", loadedU |-> None, objU |-> None,
                    retU |-> None, raisedU |-> FALSE,
                    pcR |-> "lookup", objR |-> None,
                    retR |-> None, raisedR |-> FALSE]

\* contacts.py:72-73, and :82 when nothing is found
UpdateLookup ==
    /\ race.pcU = "lookup"
    /\ LET contact == get_contact_by_id(contacts, race.uUser, race.id)
       IN  race' = IF contact # None
                   THEN [race EXCEPT !.pcU = "assign", !.loadedU = contact, !.objU = contact]
                   ELSE [race EXCEPT !.pcU = "done", !.retU = None]
    /\ UNCHANGED <<contacts, nextId, createdBy, removed, before, last, users, today>>

\* contacts.py:74-80
UpdateAssign ==
    /\ race.pcU = "assign"
    /\ race' = [race EXCEPT !.pcU = "commit",
                            !.objU = Some(Replaced(race.objU[1], race.body))]
    /\ UNCHANGED <<contacts, nextId, createdBy, removed, before, last, users, today>>

\* contacts.py:81-82
UpdateCommit ==
    /\ race.pcU = "commit"
    /\ LET r == commit_update(contacts, race.loadedU[1], race.objU[1])
       IN  /\ contacts' = r.db
           /\ race' = IF r.raised
                      THEN [race EXCEPT !.pcU = "done", !.raisedU = TRUE, !.retU = None]
                      ELSE [race EXCEPT !.pcU = "done", !.retU = race.objU]
    /\ UNCHANGED <<nextId, createdBy, removed, before, last, users, today>>

\* contacts.py:95-96, and :99 when nothing is found
RemoveLookup ==
    /\ race.pcR = "lookup"
    /\ LET contact == get_contact_by_id(contacts, race.rUser, race.id)
       IN  race' = IF contact # None
                   THEN [race EXCEPT !.pcR = "delete", !.objR = contact]
                   ELSE [race EXCEPT !.pcR = "done", !.retR = None]
    /\ UNCHANGED <<contacts, nextId, createdBy, removed, before, last, users, today>>

\* contacts.py:97
RemoveDelete ==
    /\ race.pcR = "delete"
    /\ race' = [race EXCEPT !.pcR = "commit"]
    /\ UNCHANGED <<contacts, nextId, createdBy, removed, before, last, users, today>>

\* contacts.py:98-99
RemoveCommit ==
    /\ race.pcR = "commit"
    /\ LET r == commit_delete(contacts, race.objR[1])
       IN  /\ contacts' = r.db
           /\ race' = [race EXCEPT !.pcR = "done", !.raisedR = r.raised, !.retR = race.objR]
    /\ removed' = removed \cup {race.id}
    /\ UNCHANGED <<nextId, createdBy, before, last, users, today>>

NextRace ==
    \/ UpdateLookup
    \/ UpdateAssign
    \/ UpdateCommit
    \/ RemoveLookup
    \/ RemoveDelete
    \/ RemoveCommit

SpecRace == InitRace /\ [][NextRace]_vars

\* ================================================================== claims

FieldNames ==
    {"firstname", "lastname", "email", "phone", "birthday", "additional_info", "is_favorite"}

\* The seven mutable fields of a row.
Fields(c) == [f \in FieldNames |-> c[f]]

\* The last call named a contact that `before` does not hold for its caller.
LastTargetMissing == last.id \notin DOMAIN before \/ before[last.id].user_id # last.user

\* The last call named a contact that `before` holds for its caller.
LastTargetOwned == last.id \in DOMAIN before /\ before[last.id].user_id = last.user

\* C1: a user never reads another user's contact: get_contact_by_id under B's
\* identity returns nothing for every id a user A # B created, and
\* get_contacts(B, ...) returns only contacts B created and owns.
C1_ReadIsolation ==
    /\ \A id \in DOMAIN createdBy : \A B \in Users \ {createdBy[id]} :
            get_contact_by_id(contacts, B, id) = None
    /\ (last.op = "get_contact_by_id" /\ last.id \in DOMAIN createdBy
            /\ createdBy[last.id] # last.user) => last.ret = None
    /\ last.op = "get_contacts" =>
            \A k \in 1..Len(last.ret) :
                /\ last.ret[k].user_id = last.user
                /\ createdBy[last.ret[k].id] = last.user

C1_Witness ==
    /\ last.op = "get_contact_by_id"
    /\ last.id \in DOMAIN contacts
    /\ contacts[last.id].user_id # last.user
    /\ last.ret = None
    /\ \E i \in DOMAIN contacts : contacts[i].user_id = last.user

\* C2: update, remove and set_favorite on an id that does not exist or that
\* another user owns return nothing, do not raise, and leave the whole table
\* as it was.
C2_WriteIsolation ==
    (last.op \in {"update", "remove", "set_favorite"} /\ LastTargetMissing) =>
        /\ last.ret = None
        /\ ~last.raised
        /\ contacts = before

C2_Witness ==
    /\ last.op = "update"
    /\ last.id \in DOMAIN before
    /\ before[last.id].user_id # last.user
    /\ Fields(before[last.id]) # last.body
    /\ last.ret = None
    /\ contacts = before

\* C3: create returns a contact whose id no contact of the table had, and a
\* get_contact_by_id of that id by the same user right after it returns a row
\* whose seven fields are the input's and whose owner is that user.
C3_CreateRoundTrip ==
    last.op = "create" =>
        /\ Len(last.ret) = 1
        /\ last.ret[1].id \notin DOMAIN before
        /\ LET got == get_contact_by_id(contacts, last.user, last.ret[1].id)
           IN  /\ got # None
               /\ Fields(got[1]) = last.body
               /\ got[1].user_id = last.user
               /\ got[1].id = last.ret[1].id

C3_Witness ==
    /\ last.op = "create"
    /\ last.body.is_favorite
    /\ before # EmptyTable
    /\ get_contact_by_id(contacts, last.user, last.ret[1].id) = last.ret

\* C4: update of a contact its caller owns leaves every mutable field equal to
\* the input's, keeps the id and the owner, and changes no other contact.
C4_FullReplace ==
    (last.op = "update" /\ LastTargetOwned) =>
        /\ DOMAIN contacts = DOMAIN before
        /\ Fields(contacts[last.id]) = last.body
        /\ contacts[last.id].id = last.id
        /\ contacts[last.id].user_id = before[last.id].user_id
        /\ \A i \in DOMAIN before \ {last.id} : contacts[i] = before[i]
        /\ last.ret = Some(contacts[last.id])

C4_Witness ==
    /\ last.op = "update"
    /\ LastTargetOwned
    /\ \A f \in FieldNames : before[last.id][f] # last.body[f]
    /\ Cardinality(DOMAIN before) > 1

\* C5: set_favorite on a contact its caller owns sets is_favorite to the flag
\* and changes nothing else, in that contact or in any other.
C5_SetFavoriteFrame ==
    (last.op = "set_favorite" /\ LastTargetOwned) =>
        /\ DOMAIN contacts = DOMAIN before
        /\ contacts[last.id].is_favorite = last.flag
        /\ \A f \in DOMAIN before[last.id] \ {"is_favorite"} :
                contacts[last.id][f] = before[last.id][f]
        /\ \A i \in DOMAIN before \ {last.id} : contacts[i] = before[i]

C5_Witness ==
    /\ last.op = "set_favorite"
    /\ LastTargetOwned
    /\ before[last.id].is_favorite # last.flag
    /\ before[last.id].additional_info # << >>
    /\ Cardinality(DOMAIN before) > 1

\* C6: remove of a contact its caller owns returns the row as it was, deletes
\* it and nothing else; an id once removed is absent for every user from then
\* on, also after later update and set_favorite calls on it.
C6_RemoveThenAbsent ==
    /\ (last.op = "remove" /\ LastTargetOwned) =>
            /\ last.ret = Some(before[last.id])
            /\ DOMAIN contacts = DOMAIN before \ {last.id}
            /\ \A i \in DOMAIN contacts : contacts[i] = before[i]
    /\ \A id \in removed : \A u \in Users : get_contact_by_id(contacts, u, id) = None
    /\ (last.op \in {"get_contact_by_id", "update", "set_favorite"} /\ last.id \in removed) =>
            last.ret = None

C6_Witness ==
    /\ last.op \in {"update", "set_favorite"}
    /\ last.id \in removed
    /\ createdBy[last.id] = last.user
    /\ last.ret = None
    /\ contacts # EmptyTable

\* The day after a calendar date.
NextDay(date) ==
    IF date.d < DaysInMonth(date.y, date.m) THEN [date EXCEPT !.d = date.d + 1]
    ELSE IF date.m < 12 THEN [date EXCEPT !.m = date.m + 1, !.d = 1]
    ELSE [y |-> date.y + 1, m |-> 1, d |-> 1]

\* The month/day pairs of the days date, date+1, ..., date+k.
RECURSIVE MonthDays(_, _)
MonthDays(date, k) ==
    IF k = 0 THEN {<<date.m, date.d>>}
    ELSE {<<date.m, date.d>>} \cup MonthDays(NextDay(date), k - 1)

\* C7: the birthday window returns exactly the caller's contacts whose
\* birthday month/day is that of one of the days today, ..., today+shift, also
\* across the end of the year; with shift 0, those whose birthday is today's.
C7_BirthdayWindow ==
    last.op = "get_birthday_list" =>
        /\ ~last.raised
        /\ last.ret =
            {contacts[i] : i \in {j \in DOMAIN contacts :
                /\ contacts[j].user_id = last.user
                /\ <<contacts[j].birthday.m, contacts[j].birthday.d>>
                        \in MonthDays(today, last.shift)}}

C7_Witness ==
    /\ last.op = "get_birthday_list"
    /\ today = [y |-> 2023, m |-> 12, d |-> 20]
    /\ last.shift = 40
    /\ \E c \in last.ret : c.birthday.m = 1
    /\ \E c \in last.ret : c.birthday.m = 12
    /\ \E i \in DOMAIN contacts :
            contacts[i].user_id = last.user /\ contacts[i] \notin last.ret

\* C8: a keyed operation of either repository tells that its entity does not
\* exist by returning nothing, never by raising.
C8_AbsenceNeverRaises ==
    /\ last.op \in {"get_contact_by_id", "update", "remove", "set_favorite"} => ~last.raised
    /\ (last.op \in {"get_user_by_email", "confirmed_email", "update_avatar"}
            /\ last.email \notin DOMAIN users) =>
                (~last.raised /\ last.ret = None)

CasePairs ==
    {<<"A", "a">>, <<"B", "b">>, <<"C", "c">>, <<"I", "i">>, <<"J", "j">>,
     <<"M", "m">>, <<"S", "s">>}

SameLetter(a, b) == a = b \/ <<a, b>> \in CasePairs \/ <<b, a>> \in CasePairs

\* text occurs in field at some position, letters compared without case
OccursIn(text, field) ==
    \E i \in 1..(Len(field) - Len(text) + 1) :
        \A k \in 1..Len(text) : SameLetter(field[i + k - 1], text[k])

\* C9: the partial match returns exactly the caller's contacts in which the
\* text occurs, without regard to case, in firstname, lastname, email or
\* phone: no contact of another user, and no contact without an occurrence.
C9_PartialMatch ==
    last.op = "find_contacts_by_partial_info" =>
        /\ ~last.raised
        /\ last.ret =
            {contacts[i] : i \in {j \in DOMAIN contacts :
                /\ contacts[j].user_id = last.user
                /\ \/ OccursIn(last.text, contacts[j].firstname)
                   \/ OccursIn(last.text, contacts[j].lastname)
                   \/ OccursIn(last.text, contacts[j].email)
                   \/ OccursIn(last.text, contacts[j].phone)}}

C9_Witness ==
    /\ last.op = "find_contacts_by_partial_info"
    /\ last.text = <<"s","m","i","t","h">>
    /\ \A i \in DOMAIN contacts : contacts[i].user_id = last.user
    /\ contacts[1] \in last.ret
    /\ contacts[2] \in last.ret
    /\ contacts[3] \notin last.ret

\* The race is between an update and a remove by the owner of the one contact.
RaceOfOwner ==
    /\ race.active
    /\ race.id = 1
    /\ race.uUser = createdBy[1]
    /\ race.rUser = createdBy[1]

RaceDone == race.active /\ race.pcU = "done" /\ race.pcR = "done"

====
